---------------------------- MODULE Spec2Model ----------------------------
(***************************************************************************)
(* A model of the device-scope dashboard (streamlit_app.py): the           *)
(* duplicate-aware counting helpers, presence normalization, the metrics   *)
(* and charts computed by one render of the script, and the manual         *)
(* refresh handler.                                                        *)
(*                                                                         *)
(* Numbers held in instance-count columns are floats in the program. They  *)
(* are modelled in fixed point: the integer v stands for the number v/Den. *)
(* Device counts (base counts, results of int(...)) are plain integers.    *)
(***************************************************************************)
EXTENDS Integers, Sequences, FiniteSets, TLC

(***************************************************************************)
(* Bounds of the model.                                                    *)
(***************************************************************************)
\* denominator of the fixed-point representation of float values
Den == 2
\* longest series handed to a helper
MaxLen == 2
\* largest base count handed to adjust_count_for_duplicates
MaxBase == 1
\* longest column handed to normalize_bool_column
MaxSeries == 2
\* most rows of an export whose multi-instance column is counted
MaxFlagRows == 3
\* most rows of an export rendered by the dashboard
MaxRows == 2
\* most clicks on the refresh button
MaxClicks == 1
\* most exports written while the dashboard is observed
MaxWrites == 1
\* most times the user leaves the page alone for a while
MaxIdles == 1
\* most entries of a mapping handed to get_existing_columns
MaxMapping == 2

VARIABLES
    pc,             \* position of the call or render in progress
    base_count,     \* adjust_count_for_duplicates: argument base_count
    series_entra,   \* adjust_count_for_duplicates: argument series_entra
    series_sophos,  \* adjust_count_for_duplicates: argument series_sophos
    adjusted,       \* adjust_count_for_duplicates: returned value
    series,         \* normalize_bool_column: argument series
    normalized,     \* normalize_bool_column: returned series of bools
    csv,            \* the export file: column name -> text of its cells
    df,             \* the loaded table: column name -> cells
    df_view,        \* the data table: display header -> cells
    multi_instance, \* count_multi_instance_devices(df)
    total_devices,  \* count_total_devices(df)
    devices_all_5,  \* count_all_5_contexts(df)
    heatmap_matrix, \* overlap matrix: context -> context -> adjusted count
    adjusted_counts, \* cardinality distribution: contexts present -> adjusted count
    now,            \* the clock, in seconds
    files,          \* the exports in the data directory: name -> mtime and content
    cache,          \* st.cache_data of load_devices: path -> loaded content
    refresh_running, \* st.session_state.refresh_running
    start_time,     \* refresh_and_wait: start of the poll loop
    polls,          \* calls of get_recent_csvs made by the last refresh
    outcome,        \* how the last refresh_and_wait ended
    ui,             \* the message the last refresh_and_wait showed
    button,         \* the refresh button as last rendered
    shown,          \* the export and content the last render displayed
    cache_at_click, \* the cache when the last refresh began
    files_at_click, \* the exports in the directory when the last refresh began
    page,           \* what the last render did: warning, aggregation, exception
    clicks,         \* refreshes started so far
    writes,         \* exports written so far
    idles,          \* times the user left the page alone so far
    mapping_dict,   \* get_existing_columns: argument mapping_dict, in dict order
    existing_columns \* get_existing_columns: returned list

adjVars == <<base_count, series_entra, series_sophos, adjusted>>
normVars == <<series, normalized>>
tableVars == <<csv, df, df_view, multi_instance, total_devices, devices_all_5,
               heatmap_matrix, adjusted_counts>>

refreshVars == <<now, files, cache, refresh_running, start_time, polls, outcome, ui,
                 button, shown, cache_at_click,
                 files_at_click, page, clicks, writes, idles>>

colVars == <<mapping_dict, existing_columns>>

vars == <<pc, adjVars, normVars, tableVars, refreshVars, colVars>>

(***************************************************************************)
(* Generic helpers on sequences.                                           *)
(***************************************************************************)
SeqsUpTo(S, n) == UNION {[1..k -> S] : k \in 0..n}

RECURSIVE SumSeq(_)
SumSeq(s) == IF s = <<>> THEN 0 ELSE Head(s) + SumSeq(Tail(s))

(***************************************************************************)
(* adjust_count_for_duplicates                                             *)
(***************************************************************************)
\* mutant of get_existing_columns: the targets are not filtered
get_existing_columns_unfiltered(mapping, dataframe) ==
    [k \in 1..Len(mapping) |-> mapping[k][2]]

\* lines 146-157: [actual for display, actual in mapping_dict.items()
\* if actual in dataframe.columns]; the dict is the sequence of its items
get_existing_columns(mapping, dataframe) ==
    LET F[k \in 0..Len(mapping)] ==
            IF k = 0 THEN <<>>
            ELSE IF mapping[k][2] \in DOMAIN dataframe
                 THEN Append(F[k - 1], mapping[k][2])
                 ELSE F[k - 1]
    IN  F[Len(mapping)]

\* mutant of ClipExtra: the clip at zero is forgotten
ClipExtra_unclipped(x) == x - Den

\* (x - 1).clip(lower=0) for one element x (fixed point: 1 is Den)
ClipExtra(x) == IF x - Den > 0 THEN x - Den ELSE 0

\* (series - 1).clip(lower=0).sum(), still in fixed point
ExtraSum(ser) == SumSeq([i \in 1..Len(ser) |-> ClipExtra(ser[i])])

\* Python int(x) of the fixed-point number n/Den: truncation toward zero
PyInt(n) == IF n >= 0 THEN n \div Den ELSE -((-n) \div Den)

\* mutant of adjust_count_for_duplicates: the Sophos extras are left out
adjust_count_entra_only(b, e, s) == PyInt(b * Den + ExtraSum(e))

adjust_count_for_duplicates(b, e, s) ==
    PyInt(b * Den + ExtraSum(e) + ExtraSum(s))

(***************************************************************************)
(* Python values held in the cells of a column. A string is the sequence   *)
(* of its characters. A float holds n/Den in n; NaN is a kind of its own.  *)
(***************************************************************************)
PyStr(cs)   == [kind |-> "str",   s |-> cs,   n |-> 0]
PyBool(b)   == [kind |-> "bool",  s |-> <<>>, n |-> IF b THEN 1 ELSE 0]
PyIntV(i)   == [kind |-> "int",   s |-> <<>>, n |-> i]
PyFloat(f)  == [kind |-> "float", s |-> <<>>, n |-> f]
PyNaN       == [kind |-> "nan",   s |-> <<>>, n |-> 0]
PyNone      == [kind |-> "None",  s |-> <<>>, n |-> 0]
PdNA        == [kind |-> "NA",    s |-> <<>>, n |-> 0]

DigitChars == <<"0", "1", "2", "3", "4", "5", "6", "7", "8", "9">>

\* decimal digits of the natural number i
RECURSIVE NatToStr(_)
NatToStr(i) ==
    IF i < 10 THEN <<DigitChars[i + 1]>>
    ELSE NatToStr(i \div 10) \o <<DigitChars[(i % 10) + 1]>>

IntToStr(i) == IF i < 0 THEN <<"-">> \o NatToStr(-i) ELSE NatToStr(i)

\* digits after the decimal point of r/Den (0 <= r < Den), at most k of them
RECURSIVE FracDigits(_, _)
FracDigits(r, k) ==
    IF r = 0 \/ k = 0 THEN <<>>
    ELSE <<DigitChars[((r * 10) \div Den) + 1]>> \o FracDigits((r * 10) % Den, k - 1)

\* str(f) of the float f = n/Den: "1.0", "0.0", "-1.0", "1.5"
FloatToStr(f) ==
    LET a == IF f < 0 THEN -f ELSE f
        frac == FracDigits(a % Den, 16)
    IN  (IF f < 0 THEN <<"-">> ELSE <<>>) \o NatToStr(a \div Den) \o <<".">>
        \o (IF frac = <<>> THEN <<"0">> ELSE frac)

\* series.astype(str), one element: Python's str(x)
AsTypeStr(x) ==
    CASE x.kind = "str"   -> x.s
      [] x.kind = "bool"  -> IF x.n = 1 THEN <<"T", "r", "u", "e">>
                                         ELSE <<"F", "a", "l", "s", "e">>
      [] x.kind = "int"   -> IntToStr(x.n)
      [] x.kind = "float" -> FloatToStr(x.n)
      [] x.kind = "nan"   -> <<"n", "a", "n">>
      [] x.kind = "None"  -> <<"N", "o", "n", "e">>
      [] x.kind = "NA"    -> <<"<", "N", "A", ">">>

Whitespace == {" ", "\t", "\n", "\r"}

RECURSIVE LStrip(_)
LStrip(cs) == IF cs # <<>> /\ Head(cs) \in Whitespace THEN LStrip(Tail(cs)) ELSE cs

RECURSIVE RStrip(_)
RStrip(cs) ==
    IF cs # <<>> /\ cs[Len(cs)] \in Whitespace
    THEN RStrip(SubSeq(cs, 1, Len(cs) - 1)) ELSE cs

\* mutant of StrStrip: only leading whitespace is removed
StrStrip_left_only(cs) == LStrip(cs)

\* .str.strip(), one element
StrStrip(cs) == RStrip(LStrip(cs))

UpperChars == <<"A", "B", "C", "D", "E", "F", "G", "H", "I", "J", "K", "L", "M",
                "N", "O", "P", "Q", "R", "S", "T", "U", "V", "W", "X", "Y", "Z">>
LowerChars == <<"a", "b", "c", "d", "e", "f", "g", "h", "i", "j", "k", "l", "m",
                "n", "o", "p", "q", "r", "s", "t", "u", "v", "w", "x", "y", "z">>

LowerChar(c) ==
    IF \E k \in 1..Len(UpperChars) : UpperChars[k] = c
    THEN LowerChars[CHOOSE k \in 1..Len(UpperChars) : UpperChars[k] = c]
    ELSE c

\* mutant of StrLower: the case is left as it is
StrLower_unchanged(cs) == cs

\* .str.lower(), one element
StrLower(cs) == [k \in 1..Len(cs) |-> LowerChar(cs[k])]

\* .replace({"true": True, "false": False, "1": True, "0": False}), one
\* element: a whole-cell match is replaced by the bool, any other string stays
\* mutant of ReplaceLiterals: only the digits are replaced
ReplaceLiterals_digits_only(cs) ==
    CASE cs = <<"1">> -> PyBool(TRUE)
      [] cs = <<"0">> -> PyBool(FALSE)
      [] OTHER        -> PyStr(cs)

ReplaceLiterals(cs) ==
    CASE cs = <<"t", "r", "u", "e">>      -> PyBool(TRUE)
      [] cs = <<"f", "a", "l", "s", "e">> -> PyBool(FALSE)
      [] cs = <<"1">>                     -> PyBool(TRUE)
      [] cs = <<"0">>                     -> PyBool(FALSE)
      [] OTHER                            -> PyStr(cs)

\* mutant of AsTypeBool: every string left by the replacement counts as true
AsTypeBool_str_true(x) == IF x.kind = "bool" THEN x.n = 1 ELSE TRUE

\* .astype(bool), one element of the object column the replacement leaves:
\* bool(x), which is False for the empty string only
AsTypeBool(x) == IF x.kind = "bool" THEN x.n = 1 ELSE Len(x.s) > 0

normalize_bool_column(col) ==
    [i \in 1..Len(col) |->
        AsTypeBool(ReplaceLiterals(StrLower(StrStrip(AsTypeStr(col[i])))))]

(***************************************************************************)
(* Tables. A table maps each of its column names to the sequence of the    *)
(* column's cells; df.columns is its DOMAIN. load_devices is pd.read_csv:  *)
(* the text of each column is turned into cells of one inferred type.      *)
(***************************************************************************)
IsDigit(c) == \E k \in 1..10 : DigitChars[k] = c

DigitVal(c) == (CHOOSE k \in 1..10 : DigitChars[k] = c) - 1

RECURSIVE DigitsVal(_)
DigitsVal(ds) ==
    IF ds = <<>> THEN 0
    ELSE DigitsVal(SubSeq(ds, 1, Len(ds) - 1)) * 10 + DigitVal(ds[Len(ds)])

AllDigits(ds) == ds # <<>> /\ \A k \in 1..Len(ds) : IsDigit(ds[k])

RECURSIVE Pow10(_)
Pow10(k) == IF k = 0 THEN 1 ELSE 10 * Pow10(k - 1)

\* the number a text spells, in fixed point: surrounding whitespace, a sign,
\* digits and a fraction that n/Den can hold exactly; anything else is no number
ParseNumber(cs) ==
    LET t    == StrStrip(cs)
        neg  == t # <<>> /\ t[1] = "-"
        body == IF neg THEN Tail(t) ELSE t
        sgn  == IF neg THEN -1 ELSE 1
        dots == {k \in 1..Len(body) : body[k] = "."}
    IN  IF AllDigits(body)
        THEN [ok |-> TRUE, int |-> TRUE, v |-> sgn * DigitsVal(body) * Den]
        ELSE IF \E k \in dots :
                   /\ AllDigits(SubSeq(body, 1, k - 1))
                   /\ AllDigits(SubSeq(body, k + 1, Len(body)))
                   /\ (DigitsVal(SubSeq(body, k + 1, Len(body))) * Den)
                          % Pow10(Len(body) - k) = 0
        THEN LET k == CHOOSE k \in dots : TRUE
                 fr == SubSeq(body, k + 1, Len(body))
             IN  [ok |-> TRUE, int |-> FALSE,
                  v |-> sgn * (DigitsVal(SubSeq(body, 1, k - 1)) * Den
                               + (DigitsVal(fr) * Den) \div Pow10(Len(fr)))]
        ELSE [ok |-> FALSE, int |-> FALSE, v |-> 0]

\* texts read_csv takes for a missing value (its default na_values, in part)
NaValues == { <<>>, <<"N", "A">>, <<"N", "a", "N">>, <<"n", "a", "n">>,
              <<"n", "/", "a">>, <<"N", "/", "A">>, <<"n", "u", "l", "l">>,
              <<"N", "o", "n", "e">> }

\* texts read_csv takes for booleans
CsvTrueValues == { <<"T", "r", "u", "e">>, <<"T", "R", "U", "E">>, <<"t", "r", "u", "e">> }
CsvFalseValues == { <<"F", "a", "l", "s", "e">>, <<"F", "A", "L", "S", "E">>,
                    <<"f", "a", "l", "s", "e">> }

\* one column as pd.read_csv types it: integers; floats when numbers are
\* mixed with missing values; bools; otherwise the texts themselves, with
\* NaN for the missing ones
ReadCsvColumn(raw) ==
    LET idx    == 1..Len(raw)
        nonna  == {i \in idx : raw[i] \notin NaValues}
        allnum == \A i \in nonna : ParseNumber(raw[i]).ok
        allint == \A i \in idx : i \in nonna /\ ParseNumber(raw[i]).int
        allbool == \A i \in nonna : raw[i] \in CsvTrueValues \cup CsvFalseValues
    IN  [i \in idx |->
            IF i \notin nonna THEN PyNaN
            ELSE IF allnum
                 THEN IF allint THEN PyIntV(ParseNumber(raw[i]).v \div Den)
                                ELSE PyFloat(ParseNumber(raw[i]).v)
            ELSE IF allbool THEN PyBool(raw[i] \in CsvTrueValues)
            ELSE PyStr(raw[i])]

load_devices(file) == [c \in DOMAIN file |-> ReadCsvColumn(file[c])]

\* pd.to_numeric(x, errors="coerce") of one cell: ok is false for NaN
ToNumeric(x) ==
    CASE x.kind = "int"   -> [ok |-> TRUE, int |-> TRUE, v |-> x.n * Den]
      [] x.kind = "float" -> [ok |-> TRUE, int |-> FALSE, v |-> x.n]
      [] x.kind = "bool"  -> [ok |-> TRUE, int |-> FALSE, v |-> x.n * Den]
      [] x.kind = "str"   -> ParseNumber(x.s)
      [] OTHER            -> [ok |-> FALSE, int |-> FALSE, v |-> 0]

\* the number held by a numeric cell, in fixed point
NumVal(x) == IF x.kind = "int" THEN x.n * Den ELSE x.n

MULTI_INSTANCE_COL == "MultiInstanceFlag"

\* col.dtype == bool
DTypeIsBool(col) == Len(col) > 0 /\ \A i \in 1..Len(col) : col[i].kind = "bool"

\* mutant of IsPositive: zero counts as a multi-instance flag
IsPositive_or_zero(x) == ToNumeric(x).ok /\ ToNumeric(x).v >= 0

\* pd.to_numeric(col, errors="coerce").fillna(0).gt(0), one cell
IsPositive(x) == ToNumeric(x).ok /\ ToNumeric(x).v > 0

count_multi_instance_devices(t) ==
    IF MULTI_INSTANCE_COL \notin DOMAIN t THEN 0
    ELSE LET col == t[MULTI_INSTANCE_COL]
         IN  IF DTypeIsBool(col)
             THEN Cardinality({i \in 1..Len(col) : col[i].n = 1})
             ELSE Cardinality({i \in 1..Len(col) : IsPositive(col[i])})

(***************************************************************************)
(* The metrics and charts of one render.                                   *)
(***************************************************************************)
PRESENCE_BOOL_COLS == <<"InEntra", "InIntune", "InAD", "InSophos", "InKACE">>

PRESENCE_BOOL_COLS_RENAMED == <<"In Entra", "In Intune", "In AD", "In Sophos", "In KACE">>

\* display header -> column of the export, in the order of the dict
DEVICE_CORE_FIELDS ==
    << <<"Device Name", "Name">>, <<"In Entra", "InEntra">>, <<"In Intune", "InIntune">>,
       <<"In AD", "InAD">>, <<"In Sophos", "InSophos">>, <<"In KACE", "InKACE">>,
       <<"Device Type", "DeviceType">>, <<"OS", "OS">>,
       <<"Sophos Health", "Sophos_Health">>,
       <<"Total Memory (GB)", "KACE_Machine_RAM_Total">>,
       <<"Duplicate Devices", "MultiInstanceFlag">>, <<"Last Seen", "LastSeen">>,
       <<"Primary User", "PrimaryUser">>, <<"AD Object GUID", "AD_ObjectGUID">>,
       <<"Entra Device ID(s)", "Entra_DeviceIds">>,
       <<"Intune Entra Device ID", "Intune_AzureADDeviceIds">> >>

DATA_TABLE_SPECIFIC_FIELDS ==
    << <<"IP Address", "Sophos_ipv4Addresses">>,
       <<"Entra Device Instance Count", "Entra_InstanceCount">>,
       <<"Entra Hybrid Joined", "Entra_HybridCount">>,
       <<"Entra Device ID Matches AD Object GUID", "Entra_HybridIdMatchesAD">>,
       <<"Entra Device ID Mismatches AD Object GUID", "Entra_HybridIdMismatchExists">>,
       <<"Entra Registered", "Entra_RegisteredCount">>,
       <<"Sophos Device Instance Count", "Sophos_InstanceCount">> >>

data_table_display_to_actual == DEVICE_CORE_FIELDS \o DATA_TABLE_SPECIFIC_FIELDS

\* len(df)
NRows(t) == Len(t[CHOOSE c \in DOMAIN t : TRUE])

\* col[mask]: the cells of the rows in mask, in row order
Take(col, mask) ==
    LET F[k \in 0..Len(col)] ==
            IF k = 0 THEN <<>>
            ELSE IF k \in mask THEN Append(F[k - 1], col[k]) ELSE F[k - 1]
    IN  F[Len(col)]

\* pd.to_numeric(col, errors="coerce").fillna(0): an integer column when
\* every cell is an integer, else floats with 0 for what is no number
ToNumericFillna(col) ==
    LET allint == \A i \in 1..Len(col) : ToNumeric(col[i]).ok /\ ToNumeric(col[i]).int
    IN  [i \in 1..Len(col) |->
            IF allint THEN PyIntV(ToNumeric(col[i]).v \div Den)
            ELSE PyFloat(IF ToNumeric(col[i]).ok THEN ToNumeric(col[i]).v ELSE 0)]

\* the numbers of a numeric column, in fixed point
NumSeries(col) == [i \in 1..Len(col) |-> NumVal(col[i])]

\* normalize_bool_column as a column of bool cells
BoolColumn(col) == [i \in 1..Len(col) |-> PyBool(normalize_bool_column(col)[i])]

\* the table as count_total_devices leaves it
count_total_devices_df(t) ==
    [t EXCEPT !["Entra_InstanceCount"] = ToNumericFillna(@),
              !["Sophos_InstanceCount"] = ToNumericFillna(@)]

\* mutant of count_total_devices: the duplicates are not added
count_total_devices_rows_only(t) == NRows(t)

count_total_devices(t) ==
    LET d == count_total_devices_df(t)
    IN  adjust_count_for_duplicates(NRows(d), NumSeries(d["Entra_InstanceCount"]),
                                    NumSeries(d["Sophos_InstanceCount"]))

\* the table as count_all_5_contexts leaves it
count_all_5_contexts_df(t) ==
    [c \in DOMAIN t |->
        IF \E k \in 1..5 : PRESENCE_BOOL_COLS[k] = c THEN BoolColumn(t[c])
        ELSE IF c \in {"Entra_InstanceCount", "Sophos_InstanceCount"}
             THEN ToNumericFillna(t[c])
        ELSE t[c]]

\* df[context_cols].all(axis=1), as the set of rows where it is true
AllMask(d, cols) ==
    {i \in 1..NRows(d) : \A k \in 1..Len(cols) : d[cols[k]][i].n = 1}

\* mutant of count_all_5_contexts: the instance counts of the full export
\* are used instead of those of the filtered rows
count_all_5_contexts_unfiltered(t) ==
    LET d == count_all_5_contexts_df(t)
    IN  adjust_count_for_duplicates(Cardinality(AllMask(d, PRESENCE_BOOL_COLS)),
                                    NumSeries(d["Entra_InstanceCount"]),
                                    NumSeries(d["Sophos_InstanceCount"]))

count_all_5_contexts(t) ==
    LET d == count_all_5_contexts_df(t)
        all_five_mask == AllMask(d, PRESENCE_BOOL_COLS)
    IN  adjust_count_for_duplicates(Cardinality(all_five_mask),
                                    NumSeries(Take(d["Entra_InstanceCount"], all_five_mask)),
                                    NumSeries(Take(d["Sophos_InstanceCount"], all_five_mask)))

\* df_view: the columns of the data table that the export has, under their
\* display headers
DataTableView(t) ==
    LET existing_actual == {k \in 1..Len(data_table_display_to_actual) :
                               data_table_display_to_actual[k][2] \in DOMAIN t}
    IN  [h \in {data_table_display_to_actual[k][1] : k \in existing_actual} |->
            t[data_table_display_to_actual[
                 CHOOSE k \in existing_actual : data_table_display_to_actual[k][1] = h][2]]]

\* df_view after its presence columns are normalized
NormalizedView(v) ==
    [h \in DOMAIN v |->
        IF \E k \in 1..5 : PRESENCE_BOOL_COLS_RENAMED[k] = h THEN BoolColumn(v[h]) ELSE v[h]]

\* mutant of HeatmapEntry: only the row context decides which extras are added
HeatmapEntry_row_only(v, d, i, j) ==
    LET overlap_mask == {r \in 1..NRows(d) : v[i][r].n = 1 /\ v[j][r].n = 1}
        extra_entra == IF i = "In Entra"
                       THEN ExtraSum(NumSeries(Take(d["Entra_InstanceCount"], overlap_mask)))
                       ELSE 0
        extra_sophos == IF i = "In Sophos"
                        THEN ExtraSum(NumSeries(Take(d["Sophos_InstanceCount"], overlap_mask)))
                        ELSE 0
    IN  PyInt(Cardinality(overlap_mask) * Den + extra_entra + extra_sophos)

\* mutant of HeatmapEntry: the extras of both sources are added to every pair
HeatmapEntry_all_extras(v, d, i, j) ==
    LET overlap_mask == {r \in 1..NRows(d) : v[i][r].n = 1 /\ v[j][r].n = 1}
    IN  PyInt(Cardinality(overlap_mask) * Den
              + ExtraSum(NumSeries(Take(d["Entra_InstanceCount"], overlap_mask)))
              + ExtraSum(NumSeries(Take(d["Sophos_InstanceCount"], overlap_mask))))

\* one entry of the heatmap: v is the normalized df_view, d the table df
HeatmapEntry(v, d, i, j) ==
    LET overlap_mask == {r \in 1..NRows(d) : v[i][r].n = 1 /\ v[j][r].n = 1}
        extra_entra == IF i = "In Entra" \/ j = "In Entra"
                       THEN ExtraSum(NumSeries(Take(d["Entra_InstanceCount"], overlap_mask)))
                       ELSE 0
        extra_sophos == IF i = "In Sophos" \/ j = "In Sophos"
                        THEN ExtraSum(NumSeries(Take(d["Sophos_InstanceCount"], overlap_mask)))
                        ELSE 0
    IN  PyInt(Cardinality(overlap_mask) * Den + extra_entra + extra_sophos)

Contexts == {PRESENCE_BOOL_COLS_RENAMED[k] : k \in 1..5}

BuildHeatmap(v, d) == [i \in Contexts |-> [j \in Contexts |-> HeatmapEntry(v, d, i, j)]]

\* df[context_cols].sum(axis=1), one row
ContextsPresent(d, r) == Cardinality({k \in 1..5 : d[PRESENCE_BOOL_COLS[k]][r].n = 1})

\* mutant of BucketMask: a bucket also holds the rows present in more contexts
BucketMask_at_least(d, num_contexts) ==
    {r \in 1..NRows(d) : ContextsPresent(d, r) >= num_contexts}

\* df["ContextsPresent"] == num_contexts
BucketMask(d, num_contexts) ==
    {r \in 1..NRows(d) : ContextsPresent(d, r) = num_contexts}

\* the dict adjusted_counts; d is df with its presence columns normalized
\* and its instance counts numeric
BuildAdjustedCounts(d) ==
    [num_contexts \in {ContextsPresent(d, r) : r \in 1..NRows(d)} |->
        adjust_count_for_duplicates(
            Cardinality(BucketMask(d, num_contexts)),
            NumSeries(Take(d["Entra_InstanceCount"], BucketMask(d, num_contexts))),
            NumSeries(Take(d["Sophos_InstanceCount"], BucketMask(d, num_contexts))))]

\* the column ContextsPresent that the render adds to df
ContextsPresentColumn(d) == [r \in 1..NRows(d) |-> PyIntV(ContextsPresent(d, r))]

(***************************************************************************)
(* The export directory, the cache of load_devices and the refresh button. *)
(* files maps the name of each export in the data directory to its mtime   *)
(* and to the version of its content; cache maps each path load_devices    *)
(* was called with to the version it read and the time it read it.         *)
(***************************************************************************)
\* seconds the poll loop waits before giving up
timeout == 60
\* seconds between two polls
poll_interval == 2
\* get_recent_csvs(minutes=5)
recent_minutes == 5
\* st.cache_data(ttl=24 * 3600)
cache_ttl == 24 * 3600

\* nothing is rendered: a refresh is running or the session has just begun
NoPage == [warning |-> FALSE, aggregated |-> FALSE, raised |-> FALSE]

\* max(files, key=os.path.getmtime); called on a non-empty directory
LatestOf(fs) == CHOOSE f \in DOMAIN fs : \A g \in DOMAIN fs : fs[g].mtime <= fs[f].mtime

\* get_latest_csv(): "" stands for None
get_latest_csv == IF DOMAIN files = {} THEN "" ELSE LatestOf(files)

\* get_recent_csvs(minutes): the exports modified less than minutes ago
get_recent_csvs(minutes) == {f \in DOMAIN files : now - files[f].mtime < minutes * 60}

\* load_devices(path) hits the cache
CacheHit(path) == path \in DOMAIN cache /\ now - cache[path].loaded_at < cache_ttl

\* the cache after load_devices(path)
CacheAfterLoad(path) ==
    IF CacheHit(path) THEN cache
    ELSE [p \in DOMAIN cache \cup {path} |->
            IF p = path THEN [version |-> files[path].version, loaded_at |-> now]
            ELSE cache[p]]

(***************************************************************************)
(* Specification SpecAdjust: adjust_count_for_duplicates applied to        *)
(* arbitrary inputs.                                                       *)
(***************************************************************************)
\* instance counts handed to the helper: -1, 0, 1/Den, 1, 1 + 1/Den, 2
InstanceValues == {-Den, 0, 1, Den, Den + 1, 2 * Den}

\* the variables of a helper that the specification at hand does not call
AdjUnused == base_count = 0 /\ series_entra = <<>> /\ series_sophos = <<>> /\ adjusted = 0
NormUnused == series = <<>> /\ normalized = <<>>
ColUnused == mapping_dict = <<>> /\ existing_columns = <<>>
ChartsUnused ==
    /\ df_view = <<>> /\ total_devices = 0 /\ devices_all_5 = 0
    /\ heatmap_matrix = <<>> /\ adjusted_counts = <<>>
TableUnused == csv = <<>> /\ df = <<>> /\ multi_instance = 0 /\ ChartsUnused
RefreshUnused ==
    /\ now = 0 /\ files = <<>> /\ cache = <<>> /\ refresh_running = FALSE
    /\ start_time = 0 /\ polls = 0 /\ outcome = "none" /\ ui = "none"
    /\ button = "none" /\ shown = <<>> /\ cache_at_click = <<>>
    /\ files_at_click = <<>> /\ page = NoPage
    /\ clicks = 0 /\ writes = 0 /\ idles = 0

InitAdjust ==
    /\ pc = "input"
    /\ base_count \in 0..MaxBase
    /\ series_entra \in SeqsUpTo(InstanceValues, MaxLen)
    /\ series_sophos \in SeqsUpTo(InstanceValues, MaxLen)
    /\ adjusted = 0
    /\ NormUnused
    /\ ColUnused
    /\ TableUnused
    /\ RefreshUnused

CallAdjust ==
    /\ pc = "input"
    /\ adjusted' = adjust_count_for_duplicates(base_count, series_entra, series_sophos)
    /\ pc' = "returned"
    /\ UNCHANGED <<base_count, series_entra, series_sophos, normVars, colVars, tableVars, refreshVars>>

NextAdjust == CallAdjust

SpecAdjust == InitAdjust /\ [][NextAdjust]_vars

(***************************************************************************)
(* Claims about adjust_count_for_duplicates.                               *)
(***************************************************************************)
\* x is a non-negative integer instance count
IsCount(x) == x >= 0 /\ x % Den = 0

\* max(c - 1, 0) of the integer count held by x
MaxExtra(x) == IF x \div Den > 1 THEN (x \div Den) - 1 ELSE 0

RECURSIVE SumMaxExtra(_, _)
SumMaxExtra(ser, n) ==
    IF n = 0 THEN 0 ELSE MaxExtra(ser[n]) + SumMaxExtra(ser, n - 1)

\* the series read in the order given by the permutation p of its indices
Reordered(ser, p) == [i \in 1..Len(ser) |-> ser[p[i]]]

Scaled(counts) == [i \in 1..Len(counts) |-> counts[i] * Den]

\* C1: for a non-negative integer base count and non-negative integer
\* instance counts the result is b + sum max(x-1,0) over e + sum max(x-1,0)
\* over s; (0, [], []) gives 0; (10, [2,2,3,1], [1,1,1,1]) gives 14; the
\* result is the same for every reordering of e and of s.
C1_AdjustIsBasePlusExtras ==
    /\ adjust_count_for_duplicates(0, <<>>, <<>>) = 0
    /\ adjust_count_for_duplicates(10, Scaled(<<2, 2, 3, 1>>), Scaled(<<1, 1, 1, 1>>)) = 14
    /\ pc = "returned" =>
        /\ ( /\ \A i \in 1..Len(series_entra) : IsCount(series_entra[i])
             /\ \A i \in 1..Len(series_sophos) : IsCount(series_sophos[i]) )
           => adjusted = base_count
                          + SumMaxExtra(series_entra, Len(series_entra))
                          + SumMaxExtra(series_sophos, Len(series_sophos))
        /\ \A p \in Permutations(1..Len(series_entra)) :
           \A q \in Permutations(1..Len(series_sophos)) :
              adjust_count_for_duplicates(base_count, Reordered(series_entra, p),
                                          Reordered(series_sophos, q)) = adjusted

C1_Witness ==
    /\ pc = "returned"
    /\ base_count = 1
    /\ series_entra = <<2 * Den, 0>>
    /\ series_sophos = <<Den, 2 * Den>>
    /\ adjusted = 3

\* the elements of the series that exceed 1
Over1(ser) == SelectSeq(ser, LAMBDA x : x > Den)

\* C2: the helper never subtracts. Counts of 1 or less (zero, negative,
\* fractional below 1) contribute nothing: dropping them leaves the result
\* unchanged, the result is at least the base count, and it is the base
\* count when no instance count exceeds 1.
C2_NeverSubtracts ==
    pc = "returned" =>
        /\ adjusted >= base_count
        /\ adjusted = adjust_count_for_duplicates(base_count, Over1(series_entra),
                                                  Over1(series_sophos))
        /\ ( /\ \A i \in 1..Len(series_entra) : series_entra[i] <= Den
             /\ \A i \in 1..Len(series_sophos) : series_sophos[i] <= Den )
           => adjusted = base_count

C2_Witness ==
    /\ pc = "returned"
    /\ base_count = 1
    /\ series_entra = <<-Den, 1>>
    /\ series_sophos = <<0, Den>>
    /\ adjusted = 1

(***************************************************************************)
(* Specification SpecNormalize: normalize_bool_column applied to columns   *)
(* of mixed cells. The strings are built by padding words with whitespace. *)
(***************************************************************************)
PadPairs == { <<<<>>, <<>>>>, <<<<" ">>, <<" ", " ">>>>, <<<<"\t">>, <<"\n">>>> }

Padded(words) == {PyStr(pp[1] \o w \o pp[2]) : w \in words, pp \in PadPairs}

\* "true" and "1" in several letter cases
TrueWords == { <<"t", "r", "u", "e">>, <<"T", "R", "U", "E">>,
               <<"t", "R", "u", "E">>, <<"1">> }

\* "false" and "0" in several letter cases
FalseWords == { <<"f", "a", "l", "s", "e">>, <<"F", "A", "L", "S", "E">>,
                <<"f", "A", "l", "S", "e">>, <<"0">> }

\* strings that are no key of the replacement: "yes", "t rue", "10", "0.0", " No "
OtherStrings == { PyStr(<<"y", "e", "s">>), PyStr(<<"t", " ", "r", "u", "e">>),
                  PyStr(<<"1", "0">>), PyStr(<<"0", ".", "0">>),
                  PyStr(<<" ", "N", "o", " ">>) }

\* the empty string and a string of whitespace only
BlankStrings == { PyStr(<<>>), PyStr(<<" ", "\t">>) }

NonStrings == { PyBool(TRUE), PyBool(FALSE), PyIntV(1), PyIntV(0), PyIntV(2), PyIntV(-1),
                PyFloat(Den), PyFloat(0), PyNaN, PyNone, PdNA }

Cells == Padded(TrueWords) \cup Padded(FalseWords) \cup OtherStrings
         \cup BlankStrings \cup NonStrings

InitNormalize ==
    /\ pc = "input"
    /\ series \in SeqsUpTo(Cells, MaxSeries)
    /\ normalized = <<>>
    /\ AdjUnused
    /\ ColUnused
    /\ TableUnused
    /\ RefreshUnused

CallNormalize ==
    /\ pc = "input"
    /\ normalized' = normalize_bool_column(series)
    /\ pc' = "returned"
    /\ UNCHANGED <<series, adjVars, colVars, tableVars, refreshVars>>

NextNormalize == CallNormalize

SpecNormalize == InitNormalize /\ [][NextNormalize]_vars

(***************************************************************************)
(* Claims about normalize_bool_column.                                     *)
(***************************************************************************)
TrueLiterals == Padded(TrueWords) \cup {PyBool(TRUE), PyIntV(1)}
FalseLiterals == Padded(FalseWords) \cup {PyBool(FALSE), PyIntV(0)}

\* C3: the result has the length and order of the input, each element is
\* mapped on its own, "true"/"1" in any case and padding, True and 1 become
\* True, "false"/"0" in any case and padding, False and 0 become False.
C3_NormalizeRecognisedLiterals ==
    pc = "returned" =>
        /\ Len(normalized) = Len(series)
        /\ \A i \in 1..Len(series) :
            /\ series[i] \in TrueLiterals => normalized[i] = TRUE
            /\ series[i] \in FalseLiterals => normalized[i] = FALSE
            /\ normalized[i] = normalize_bool_column(<<series[i]>>)[1]

C3_Witness ==
    /\ pc = "returned"
    /\ series = <<PyStr(<<" ", "F", "A", "L", "S", "E", " ", " ">>), PyIntV(1)>>
    /\ normalized = <<FALSE, TRUE>>

\* the string the replacement looks up: stringified, trimmed, lowercased
LookupKey(x) == StrLower(StrStrip(AsTypeStr(x)))

ReplacementKeys == { <<"t", "r", "u", "e">>, <<"f", "a", "l", "s", "e">>, <<"1">>, <<"0">> }

\* C4 as stated: every value whose stringified, trimmed, lowercased form is
\* not "true", "false", "1" or "0" becomes True.
C4_UnrecognisedIsTrue ==
    pc = "returned" =>
        \A i \in 1..Len(series) :
            LookupKey(series[i]) \notin ReplacementKeys => normalized[i] = TRUE

\* C4 as amended: such a value becomes True unless its trimmed form is the
\* empty string, which becomes False; None, NA and NaN become True.
C4_UnrecognisedIsTrueUnlessBlank ==
    pc = "returned" =>
        \A i \in 1..Len(series) :
            /\ LookupKey(series[i]) \notin ReplacementKeys
                   => normalized[i] = (LookupKey(series[i]) # <<>>)
            /\ series[i] \in {PyNone, PdNA, PyNaN} => normalized[i] = TRUE

C4_Witness ==
    /\ pc = "returned"
    /\ series = <<PyNone, PyStr(<<" ", "\t">>)>>
    /\ normalized = <<TRUE, FALSE>>

(***************************************************************************)
(* Specification SpecMulti: count_multi_instance_devices applied to a      *)
(* loaded export that has or lacks the multi-instance column.              *)
(***************************************************************************)
\* texts of a multi-instance cell: True, False, missing, 0, 2, -1, "yes"
FlagTexts == { <<"T", "r", "u", "e">>, <<"F", "a", "l", "s", "e">>, <<>>,
               <<"0">>, <<"2">>, <<"-", "1">>, <<"y", "e", "s">> }

\* a Name column of n rows, which every export has
NameColumn(n) == [i \in 1..n |-> <<"d">> \o NatToStr(i)]

InitMulti ==
    /\ pc = "input"
    /\ \E n \in 0..MaxFlagRows :
          \/ csv = [c \in {"Name"} |-> NameColumn(n)]
          \/ \E flags \in [1..n -> FlagTexts] :
                csv = [c \in {"Name", MULTI_INSTANCE_COL} |->
                          IF c = "Name" THEN NameColumn(n) ELSE flags]
    /\ df = load_devices(csv)
    /\ multi_instance = 0
    /\ ChartsUnused
    /\ AdjUnused
    /\ NormUnused
    /\ ColUnused
    /\ RefreshUnused

CallCountMulti ==
    /\ pc = "input"
    /\ multi_instance' = count_multi_instance_devices(df)
    /\ pc' = "returned"
    /\ UNCHANGED <<csv, df, df_view, total_devices, devices_all_5, heatmap_matrix,
                   adjusted_counts, adjVars, normVars, colVars, refreshVars>>

NextMulti == CallCountMulti

SpecMulti == InitMulti /\ [][NextMulti]_vars

(***************************************************************************)
(* Claim about count_multi_instance_devices.                               *)
(***************************************************************************)
\* the texts of FlagTexts that spell a number above zero
PositiveFlagTexts == { <<"2">> }

\* C9: without the multi-instance column the count is 0; with it, the count
\* is the number of rows whose indicator was loaded as boolean true or spells
\* a number above zero (zero, negative, missing and non-numeric indicators
\* are not counted).
C9_MultiInstanceCount ==
    pc = "returned" =>
        IF MULTI_INSTANCE_COL \notin DOMAIN csv
        THEN multi_instance = 0
        ELSE multi_instance =
                Cardinality({i \in 1..Len(csv[MULTI_INSTANCE_COL]) :
                                \/ csv[MULTI_INSTANCE_COL][i] \in PositiveFlagTexts
                                \/ df[MULTI_INSTANCE_COL][i] = PyBool(TRUE)})

\* a numeric column with a positive, a negative and a missing indicator
C9_Witness ==
    /\ pc = "returned"
    /\ MULTI_INSTANCE_COL \in DOMAIN csv
    /\ csv[MULTI_INSTANCE_COL] = << <<"2">>, <<"-", "1">>, <<>> >>
    /\ multi_instance = 1

\* the column is absent and the call returned 0
C9_ReachedAbsent ==
    /\ pc = "returned"
    /\ MULTI_INSTANCE_COL \notin DOMAIN df
    /\ Len(df["Name"]) = 2
    /\ multi_instance = 0

(***************************************************************************)
(* Specification SpecDash: one render of the dashboard over an export,     *)
(* statement by statement. The presence columns of the export carry the    *)
(* flag in different forms: True/False, 1/0, padded text in mixed case,    *)
(* False or missing, yes/0. An instance count may be missing or no number. *)
(***************************************************************************)
\* texts of the Entra and Sophos instance counts of one row
CountTexts == { << <<>>, <<"2">> >>, << <<"1">>, <<"1">> >>,
                << <<"3">>, <<"?">> >>, << <<"3">>, <<"2">> >> }

\* the contexts one row is present in: all five, none, one, two (with and
\* without a source that has instance counts), three, four
PresencePatterns ==
    { {"InEntra", "InIntune", "InAD", "InSophos", "InKACE"}, {},
      {"InEntra"}, {"InEntra", "InSophos"}, {"InIntune", "InAD"},
      {"InAD", "InSophos", "InKACE"},
      {"InEntra", "InIntune", "InAD", "InSophos"} }

\* how each presence column of the export spells a flag
FlagText(c, present) ==
    CASE c = "InEntra"  -> IF present THEN <<"T", "r", "u", "e">> ELSE <<"F", "a", "l", "s", "e">>
      [] c = "InIntune" -> IF present THEN <<"1">> ELSE <<"0">>
      [] c = "InAD"     -> IF present THEN <<" ", "t", "r", "u", "e">>
                                      ELSE <<"F", "A", "L", "S", "E", " ">>
      [] c = "InSophos" -> IF present THEN <<>> ELSE <<"F", "a", "l", "s", "e">>
      [] c = "InKACE"   -> IF present THEN <<"y", "e", "s">> ELSE <<"0">>

DashRows ==
    { [ InEntra  |-> FlagText("InEntra", "InEntra" \in p),
        InIntune |-> FlagText("InIntune", "InIntune" \in p),
        InAD     |-> FlagText("InAD", "InAD" \in p),
        InSophos |-> FlagText("InSophos", "InSophos" \in p),
        InKACE   |-> FlagText("InKACE", "InKACE" \in p),
        counts   |-> ct ] : p \in PresencePatterns, ct \in CountTexts }

\* the export of the given rows; the multi-instance flag of a row is set
\* when one of its instance counts is above 1
ExportOf(rows) ==
    [c \in {"Name", "DeviceType", "OS", MULTI_INSTANCE_COL, "InEntra", "InIntune", "InAD",
            "InSophos", "InKACE", "Entra_InstanceCount", "Sophos_InstanceCount"} |->
        [i \in 1..Len(rows) |->
            CASE c = "Name"       -> <<"d">> \o NatToStr(i)
              [] c = "DeviceType" -> <<"P", "C">>
              [] c = "OS"         -> <<"W">>
              [] c = MULTI_INSTANCE_COL ->
                    IF rows[i].counts[1] = <<"3">> \/ rows[i].counts[2] = <<"2">>
                    THEN <<"T", "r", "u", "e">> ELSE <<"F", "a", "l", "s", "e">>
              [] c = "Entra_InstanceCount"  -> rows[i].counts[1]
              [] c = "Sophos_InstanceCount" -> rows[i].counts[2]
              [] OTHER -> rows[i][c] ]]

InitDash ==
    /\ pc = "start"
    /\ \E rows \in SeqsUpTo(DashRows, MaxRows) : csv = ExportOf(rows)
    /\ df = <<>>
    /\ multi_instance = 0
    /\ ChartsUnused
    /\ AdjUnused
    /\ NormUnused
    /\ ColUnused
    /\ RefreshUnused

\* lines 191-420: the latest export is loaded, the data table is sliced out
\* of it under its display headers and its duplicate column is normalized
LoadAndSlice ==
    /\ pc = "start"
    /\ df' = load_devices(csv)
    /\ df_view' = [DataTableView(load_devices(csv))
                      EXCEPT !["Duplicate Devices"] = BoolColumn(@)]
    /\ pc' = "loaded"
    /\ UNCHANGED <<csv, multi_instance, total_devices, devices_all_5, heatmap_matrix,
                   adjusted_counts, adjVars, normVars, colVars, refreshVars>>

\* lines 426-428: the three metrics; the first two rewrite columns of df
Metrics ==
    /\ pc = "loaded"
    /\ total_devices' = count_total_devices(df)
    /\ devices_all_5' = count_all_5_contexts(count_total_devices_df(df))
    /\ df' = count_all_5_contexts_df(count_total_devices_df(df))
    /\ multi_instance' = count_multi_instance_devices(df)
    /\ pc' = "metrics"
    /\ UNCHANGED <<csv, df_view, heatmap_matrix, adjusted_counts, adjVars, normVars, colVars, refreshVars>>

\* lines 441-459: the presence columns of df_view are normalized, its
\* instance counts made numeric, and the heatmap is built
Heatmap ==
    /\ pc = "metrics"
    /\ df_view' = [NormalizedView(df_view)
                      EXCEPT !["Entra Device Instance Count"] = ToNumericFillna(@),
                             !["Sophos Device Instance Count"] = ToNumericFillna(@)]
    /\ heatmap_matrix' = BuildHeatmap(df_view', df)
    /\ pc' = "heatmap"
    /\ UNCHANGED <<csv, df, multi_instance, total_devices, devices_all_5,
                   adjusted_counts, adjVars, normVars, colVars, refreshVars>>

\* lines 478-497: df is normalized once more, the column ContextsPresent is
\* added and the adjusted count of each group is stored
Donut ==
    /\ pc = "heatmap"
    /\ df' = [c \in DOMAIN df \cup {"ContextsPresent"} |->
                 IF c = "ContextsPresent"
                 THEN ContextsPresentColumn(count_all_5_contexts_df(df))
                 ELSE count_all_5_contexts_df(df)[c]]
    /\ adjusted_counts' = BuildAdjustedCounts(df')
    /\ pc' = "rendered"
    /\ UNCHANGED <<csv, df_view, multi_instance, total_devices, devices_all_5,
                   heatmap_matrix, adjVars, normVars, colVars, refreshVars>>

NextDash == LoadAndSlice \/ Metrics \/ Heatmap \/ Donut

SpecDash == InitDash /\ [][NextDash]_vars

(***************************************************************************)
(* Claims about the render. What a cell of the export means is read off    *)
(* its text: the flag it stands for and the instance count it holds.       *)
(***************************************************************************)
\* the texts of DashRows that stand for a true presence flag (a missing
\* flag is taken for true by the normalization)
TrueFlagTexts == { <<"T", "r", "u", "e">>, <<"1">>, <<" ", "t", "r", "u", "e">>,
                   <<>>, <<"y", "e", "s">> }

\* the instance count a text of CountTexts holds: 0 when missing or no number
CountOfText(txt) ==
    CASE txt = <<"1">> -> 1
      [] txt = <<"2">> -> 2
      [] txt = <<"3">> -> 3
      [] OTHER -> 0

ExportRows == 1..Len(csv["Name"])

\* the export column behind a context of the heatmap
ActualOf(context) ==
    PRESENCE_BOOL_COLS[CHOOSE k \in 1..5 : PRESENCE_BOOL_COLS_RENAMED[k] = context]

\* row r of the export is present in the context held by column c
Present(c, r) == csv[c][r] \in TrueFlagTexts

\* max(count - 1, 0) of the instance count of row r in column c
DupExtra(c, r) ==
    IF CountOfText(csv[c][r]) > 1 THEN CountOfText(csv[c][r]) - 1 ELSE 0

RECURSIVE SumTo(_, _)
SumTo(f, n) == IF n = 0 THEN 0 ELSE f[n] + SumTo(f, n - 1)

\* the sum of max(count - 1, 0) of column c over the rows in S
ExtrasOver(c, S) ==
    SumTo([r \in ExportRows |-> IF r \in S THEN DupExtra(c, r) ELSE 0], Len(csv["Name"]))

\* C5: once built, the overlap matrix is symmetric.
C5_HeatmapSymmetric ==
    pc \in {"heatmap", "rendered"} =>
        \A i \in Contexts : \A j \in Contexts :
            heatmap_matrix[i][j] = heatmap_matrix[j][i]

\* a pair with Entra carries Entra extras on both sides of the diagonal
C5_Witness ==
    /\ pc = "heatmap"
    /\ heatmap_matrix["In Entra"]["In AD"] = 3
    /\ heatmap_matrix["In AD"]["In Entra"] = 3
    /\ heatmap_matrix["In AD"]["In AD"] = 1

\* C6: every entry (i, j) of the overlap matrix is the number of rows present
\* in both contexts, plus the Entra extras of those rows if i or j is
\* "In Entra", plus the Sophos extras of those rows if i or j is "In Sophos".
C6_HeatmapEntries ==
    pc \in {"heatmap", "rendered"} =>
        \A i \in Contexts : \A j \in Contexts :
            LET both == {r \in ExportRows : Present(ActualOf(i), r) /\ Present(ActualOf(j), r)}
            IN  heatmap_matrix[i][j] =
                    Cardinality(both)
                    + (IF "In Entra" \in {i, j}
                       THEN ExtrasOver("Entra_InstanceCount", both) ELSE 0)
                    + (IF "In Sophos" \in {i, j}
                       THEN ExtrasOver("Sophos_InstanceCount", both) ELSE 0)

\* two rows present everywhere, one of them duplicated in Entra and Sophos:
\* the pair without Entra and Sophos counts the rows only
C6_Witness ==
    /\ pc = "heatmap"
    /\ csv["Entra_InstanceCount"] = << <<"3">>, <<"1">> >>
    /\ csv["Sophos_InstanceCount"] = << <<"2">>, <<"1">> >>
    /\ heatmap_matrix["In Intune"]["In AD"] = 2
    /\ heatmap_matrix["In Entra"]["In Intune"] = 4
    /\ heatmap_matrix["In Entra"]["In Sophos"] = 5

\* the rows of the export present in all five contexts
AllFiveRows == {r \in ExportRows : \A k \in 1..5 : Present(PRESENCE_BOOL_COLS[k], r)}

\* C7: the all-five count is the number of rows present in all five
\* contexts plus the Entra and Sophos extras of exactly those rows.
C7_AllFiveCount ==
    pc \in {"metrics", "heatmap", "rendered"} =>
        devices_all_5 = Cardinality(AllFiveRows)
                        + ExtrasOver("Entra_InstanceCount", AllFiveRows)
                        + ExtrasOver("Sophos_InstanceCount", AllFiveRows)

\* one row in all five contexts and one duplicated row outside of them
C7_Witness ==
    /\ pc = "metrics"
    /\ Len(csv["Name"]) = 2
    /\ AllFiveRows = {1}
    /\ csv["Entra_InstanceCount"] = << <<"3">>, <<"3">> >>
    /\ csv["Sophos_InstanceCount"] = << <<"2">>, <<"2">> >>
    /\ devices_all_5 = 4
    /\ total_devices = 8

\* the number of contexts row r is present in
Cardinal(r) == Cardinality({k \in 1..5 : Present(PRESENCE_BOOL_COLS[k], r)})

\* the instance counts of column c of the rows in S, in row order
CountsOver(c, S) ==
    LET F[k \in 0..Len(csv[c])] ==
            IF k = 0 THEN <<>>
            ELSE IF k \in S THEN Append(F[k - 1], CountOfText(csv[c][k]) * Den)
            ELSE F[k - 1]
    IN  F[Len(csv[c])]

\* C8: each row falls in the bucket of the number of contexts it is present
\* in, and the value stored for a bucket is adjust_count_for_duplicates of
\* the number of its rows and of their Entra and Sophos instance counts.
C8_CardinalityBuckets ==
    pc = "rendered" =>
        /\ \A r \in ExportRows : df["ContextsPresent"][r] = PyIntV(Cardinal(r))
        /\ DOMAIN adjusted_counts = {Cardinal(r) : r \in ExportRows}
        /\ \A k \in DOMAIN adjusted_counts :
              LET bucket == {r \in ExportRows : Cardinal(r) = k}
              IN  /\ k \in 0..5
                  /\ adjusted_counts[k] =
                        adjust_count_for_duplicates(
                            Cardinality(bucket),
                            CountsOver("Entra_InstanceCount", bucket),
                            CountsOver("Sophos_InstanceCount", bucket))

\* two buckets, the lower one holding a duplicated row
C8_Witness ==
    /\ pc = "rendered"
    /\ DOMAIN adjusted_counts = {2, 5}
    /\ adjusted_counts[5] = 1
    /\ adjusted_counts[2] = 4

(***************************************************************************)
(* Specification SpecRefresh: renders of the page, clicks on the refresh   *)
(* button, the external script and whatever else writes exports.           *)
(***************************************************************************)
\* names an export may have
ExportNames == {"DeviceScope_Merged_A.csv", "DeviceScope_Merged_B.csv"}

\* seconds the external script may run
ScriptDurations == {1, 400}

\* seconds the user may leave the page alone
IdleTimes == {30, cache_ttl}

\* the directory is empty, or holds one export written 100 or 1000 seconds ago
InitRefresh ==
    /\ pc = "idle"
    /\ now = 1000
    /\ files \in { <<>> } \cup
           { [f \in {"DeviceScope_Merged_A.csv"} |-> [mtime |-> m, version |-> 0]] :
                m \in {0, 900} }
    /\ cache = <<>>
    /\ refresh_running = FALSE
    /\ start_time = 0
    /\ polls = 0
    /\ outcome = "none"
    /\ ui = "none"
    /\ button = "none"
    /\ shown = <<>>
    /\ cache_at_click = <<>>
    /\ files_at_click = <<>>
    /\ page = NoPage
    /\ clicks = 0
    /\ writes = 0
    /\ idles = 0
    /\ AdjUnused
    /\ NormUnused
    /\ ColUnused
    /\ TableUnused

\* an export is written (by the script or by anything else): a new file, or
\* an existing one overwritten
ExportWritten ==
    /\ writes < MaxWrites
    /\ \E f \in ExportNames :
          files' = [g \in DOMAIN files \cup {f} |->
                       IF g = f THEN [mtime |-> now, version |-> writes + 1] ELSE files[g]]
    /\ writes' = writes + 1
    /\ UNCHANGED <<pc, now, cache, refresh_running, start_time, polls, outcome, ui,
                   button, shown,
                   cache_at_click, files_at_click, page, clicks, idles,
                   adjVars, normVars, colVars, tableVars>>

\* the user leaves the page alone
Idle ==
    /\ pc = "idle"
    /\ idles < MaxIdles
    /\ idles' = idles + 1
    /\ \E dt \in IdleTimes : now' = now + dt
    /\ UNCHANGED <<pc, files, cache, refresh_running, start_time, polls, outcome, ui,
                   button, shown,
                   cache_at_click, files_at_click, page, clicks, writes,
                   adjVars, normVars, colVars, tableVars>>

\* one run of the script body (lines 191-325): the latest export is loaded
\* through the cache and the button is drawn, disabled while refresh_running
RenderPage ==
    /\ pc = "idle"
    /\ LET latest_file == get_latest_csv
       IN  IF latest_file = ""
           THEN \* line 196 warns; the button is drawn at line 322; line 325
                \* calls os.path.basename(None), which raises TypeError
                /\ shown' = <<>>
                /\ cache' = cache
                /\ page' = [warning |-> TRUE, aggregated |-> FALSE, raised |-> TRUE]
           ELSE /\ cache' = CacheAfterLoad(latest_file)
                /\ shown' = [file |-> latest_file,
                             version |-> CacheAfterLoad(latest_file)[latest_file].version]
                /\ page' = [warning |-> FALSE, aggregated |-> TRUE, raised |-> FALSE]
    /\ button' = IF refresh_running THEN "disabled" ELSE "enabled"
    /\ UNCHANGED <<pc, now, files, refresh_running, start_time, polls, outcome, ui,
                   cache_at_click, files_at_click, clicks, writes, idles,
                   adjVars, normVars, colVars, tableVars>>

\* the user clicks the button: refresh_and_wait starts (line 277) and
\* subprocess.run is entered
Click ==
    /\ pc = "idle"
    /\ button = "enabled"
    /\ clicks < MaxClicks
    /\ clicks' = clicks + 1
    /\ refresh_running' = TRUE
    /\ pc' = "script"
    /\ polls' = 0
    /\ outcome' = "running"
    /\ ui' = "spinner"
    /\ button' = "none"
    /\ shown' = <<>>
    /\ cache_at_click' = cache
    /\ files_at_click' = files
    /\ page' = NoPage
    /\ UNCHANGED <<now, files, cache, start_time, writes, idles, adjVars, normVars, colVars, tableVars>>

\* mutant of ScriptFails: the flag is not reset before the return
ScriptFails_flag_kept ==
    /\ pc = "script"
    /\ \E d \in ScriptDurations : now' = now + d
    /\ ui' = "PowerShell script failed"
    /\ outcome' = "script_failed"
    /\ pc' = "idle"
    /\ UNCHANGED <<refresh_running, files, cache, start_time, polls, button, shown,
                   cache_at_click, files_at_click, page, clicks, writes, idles,
                   adjVars, normVars, colVars, tableVars>>

\* lines 292-295: the script exits with a non-zero status
ScriptFails ==
    /\ pc = "script"
    /\ \E d \in ScriptDurations : now' = now + d
    /\ refresh_running' = FALSE
    /\ ui' = "PowerShell script failed"
    /\ outcome' = "script_failed"
    /\ pc' = "idle"
    /\ UNCHANGED <<files, cache, start_time, polls, button, shown,
                   cache_at_click, files_at_click, page,
                   clicks, writes, idles, adjVars, normVars, colVars, tableVars>>

\* subprocess.run raises something else than CalledProcessError (powershell
\* is not installed): the exception leaves refresh_and_wait
ScriptNotStarted ==
    /\ pc = "script"
    /\ ui' = "exception"
    /\ outcome' = "raised"
    /\ pc' = "idle"
    /\ UNCHANGED <<now, files, cache, refresh_running, start_time, polls, button, shown,
                   cache_at_click, files_at_click, page, clicks, writes, idles,
                   adjVars, normVars, colVars, tableVars>>

\* lines 281-300: the script exits with status 0 and the poll loop is entered
ScriptSucceeds ==
    /\ pc = "script"
    /\ \E d \in ScriptDurations :
          /\ now' = now + d
          /\ start_time' = now + d
    /\ pc' = "polling"
    /\ UNCHANGED <<files, cache, refresh_running, polls, outcome, ui, button, shown,
                   cache_at_click, files_at_click, page, clicks, writes, idles,
                   adjVars, normVars, colVars, tableVars>>

\* lines 302-307 and 308-319: one turn of the poll loop; a recent export
\* ends the refresh with the cache cleared, else the loop sleeps
Poll ==
    /\ pc = "polling"
    /\ now - start_time < timeout
    /\ polls' = polls + 1
    /\ IF get_recent_csvs(recent_minutes) # {}
       THEN /\ cache' = <<>>
            /\ ui' = "Loaded"
            /\ outcome' = "found"
            /\ refresh_running' = FALSE
            /\ pc' = "idle"
            /\ now' = now
       ELSE /\ now' = now + poll_interval
            /\ UNCHANGED <<cache, ui, outcome, refresh_running, pc>>
    /\ UNCHANGED <<files, start_time, button, shown,
                   cache_at_click, files_at_click, page, clicks, writes,
                   idles, adjVars, normVars, colVars, tableVars>>

\* mutant of PollTimeout: the cache is cleared as on success
PollTimeout_cache_cleared ==
    /\ pc = "polling"
    /\ now - start_time >= timeout
    /\ ui' = "No recent device export file found"
    /\ outcome' = "timeout"
    /\ refresh_running' = FALSE
    /\ cache' = <<>>
    /\ pc' = "idle"
    /\ UNCHANGED <<now, files, start_time, polls, button, shown,
                   cache_at_click, files_at_click, page,
                   clicks, writes, idles, adjVars, normVars, colVars, tableVars>>

\* lines 302 and 317-319: the timeout has elapsed without a recent export
PollTimeout ==
    /\ pc = "polling"
    /\ now - start_time >= timeout
    /\ ui' = "No recent device export file found"
    /\ outcome' = "timeout"
    /\ refresh_running' = FALSE
    /\ pc' = "idle"
    /\ UNCHANGED <<now, files, cache, start_time, polls, button, shown,
                   cache_at_click, files_at_click, page,
                   clicks, writes, idles, adjVars, normVars, colVars, tableVars>>

NextRefresh ==
    \/ ExportWritten
    \/ Idle
    \/ RenderPage
    \/ Click
    \/ ScriptFails
    \/ ScriptNotStarted
    \/ ScriptSucceeds
    \/ Poll
    \/ PollTimeout

SpecRefresh == InitRefresh /\ [][NextRefresh]_vars

(***************************************************************************)
(* Claims about refresh_and_wait.                                          *)
(***************************************************************************)
\* C10: when the script fails, refresh_and_wait shows the script error at
\* once (it never polls), resets refresh_running and leaves the cache as it
\* was: every table cached when the refresh began stays cached until its
\* time to live is over, and a later render of a cached export displays the
\* cached table, whatever the file holds by then.
C10_ScriptFailure ==
    outcome = "script_failed" =>
        /\ pc = "idle"
        /\ ui = "PowerShell script failed"
        /\ refresh_running = FALSE
        /\ polls = 0
        /\ \A p \in DOMAIN cache_at_click :
              /\ p \in DOMAIN cache
              /\ \/ cache[p] = cache_at_click[p]
                 \/ now - cache_at_click[p].loaded_at >= cache_ttl
        /\ ( /\ shown # <<>>
             /\ shown.file \in DOMAIN cache_at_click
             /\ now - cache_at_click[shown.file].loaded_at < cache_ttl )
           => shown.version = cache_at_click[shown.file].version

\* after a failed refresh the page is rendered again from the cached table,
\* although the export was overwritten in the meantime
C10_Witness ==
    /\ outcome = "script_failed"
    /\ shown # <<>>
    /\ shown.file \in DOMAIN cache_at_click
    /\ shown.version = cache_at_click[shown.file].version
    /\ files[shown.file].version # shown.version
    /\ button = "enabled"

\* C11: the poll loop is bounded by the timeout; when it ends without a poll
\* having seen a recent export, refresh_and_wait shows the timeout error,
\* which is not the script error, resets refresh_running and leaves the
\* cache as it was: the tables cached when the refresh began stay cached
\* until their time to live is over and a later render displays them.
C11_PollTimeout ==
    /\ pc = "polling" =>
        /\ now - start_time = polls * poll_interval
        /\ polls * poll_interval <= timeout
    /\ outcome = "timeout" =>
        /\ pc = "idle"
        /\ polls * poll_interval >= timeout
        /\ ui = "No recent device export file found"
        /\ ui # "PowerShell script failed"
        /\ refresh_running = FALSE
        /\ \A p \in DOMAIN cache_at_click :
              /\ p \in DOMAIN cache
              /\ \/ cache[p] = cache_at_click[p]
                 \/ now - cache_at_click[p].loaded_at >= cache_ttl
        /\ ( /\ shown # <<>>
             /\ shown.file \in DOMAIN cache_at_click
             /\ now - cache_at_click[shown.file].loaded_at < cache_ttl )
           => shown.version = cache_at_click[shown.file].version

\* a refresh timed out after the polls of a whole minute and the page is
\* rendered again from the table cached before it
C11_Witness ==
    /\ outcome = "timeout"
    /\ polls = timeout \div poll_interval
    /\ shown # <<>>
    /\ shown.file \in DOMAIN cache_at_click
    /\ shown.version = cache_at_click[shown.file].version
    /\ button = "enabled"

\* a refresh starts only through a button drawn enabled, and the flag is
\* false whenever the button is drawn enabled
RefreshStartsOnlyWhenNotRunning == button = "enabled" => refresh_running = FALSE

\* the flag is false whenever refresh_and_wait is not executing
FlagFalseWhenNoRefresh == pc = "idle" => refresh_running = FALSE

\* a page rendered while no refresh is executing offers the button
ButtonUsableAfterRefresh == (pc = "idle" /\ button # "none") => button = "enabled"

\* C12: refresh_running prevents re-entrant refresh: no refresh starts while
\* it is true, it is false in every state where no refresh is executing,
\* however the previous refresh_and_wait ended, and so the button is usable
\* again after each refresh.
C12_FlagGuardsRefresh ==
    /\ RefreshStartsOnlyWhenNotRunning
    /\ FlagFalseWhenNoRefresh
    /\ ButtonUsableAfterRefresh

\* an exception left refresh_and_wait and the next render draws the button
\* disabled
C12_StuckDisabled ==
    /\ pc = "idle"
    /\ outcome = "raised"
    /\ refresh_running = TRUE
    /\ button = "disabled"

\* the exports written or rewritten since the last refresh began
NewExports ==
    {f \in DOMAIN files : f \notin DOMAIN files_at_click \/ files[f] # files_at_click[f]}

\* C13: a refresh ends in its success outcome only if an export appeared
\* that was not there before the script was invoked; an export that was
\* there already never makes the refresh report success.
C13_SuccessNeedsNewExport ==
    outcome = "found" => NewExports # {}

\* a refresh has reported success and cleared the cache although the
\* directory is as it was when the refresh began
C13_SuccessWithoutNewExport ==
    /\ outcome = "found"
    /\ ui = "Loaded"
    /\ files = files_at_click
    /\ cache_at_click # <<>>
    /\ cache = <<>>

\* C14: when the directory holds no export, a render warns, skips the
\* aggregation and completes without raising an error.
C14_NoExportRender ==
    (pc = "idle" /\ button # "none" /\ shown = <<>>) =>
        /\ page.warning
        /\ ~page.aggregated
        /\ ~page.raised

\* a render over an empty directory has warned and then raised
C14_RenderRaised ==
    /\ pc = "idle"
    /\ DOMAIN files = {}
    /\ button = "enabled"
    /\ page = [warning |-> TRUE, aggregated |-> FALSE, raised |-> TRUE]

(***************************************************************************)
(* Claims about the aggregation functions as called by the render.         *)
(***************************************************************************)
\* each metric is the same whichever of the other functions ran before it
\* on the same table
MetricsOrderIndependent ==
    LET t == load_devices(csv)
    IN  /\ count_total_devices(count_all_5_contexts_df(t)) = count_total_devices(t)
        /\ count_all_5_contexts(count_total_devices_df(t)) = count_all_5_contexts(t)
        /\ count_multi_instance_devices(count_total_devices_df(t))
               = count_multi_instance_devices(t)
        /\ count_multi_instance_devices(count_all_5_contexts_df(t))
               = count_multi_instance_devices(t)

\* C15: count_total_devices, count_all_5_contexts and
\* count_multi_instance_devices leave the table they are given unchanged
\* (same columns, same cells), so no metric depends on which of the others
\* was called before it.
C15_AggregationsPure ==
    pc = "metrics" =>
        /\ DOMAIN df = DOMAIN load_devices(csv)
        /\ df = load_devices(csv)
        /\ count_total_devices_df(load_devices(csv)) = load_devices(csv)
        /\ count_all_5_contexts_df(load_devices(csv)) = load_devices(csv)
        /\ MetricsOrderIndependent

\* after the metrics a missing instance count of the table has become 0 and
\* the presence marker "yes" has become True
C15_TableRewritten ==
    /\ pc = "metrics"
    /\ Len(csv["Name"]) = 1
    /\ load_devices(csv)["Entra_InstanceCount"][1] = PyNaN
    /\ df["Entra_InstanceCount"][1] = PyFloat(0)
    /\ load_devices(csv)["InKACE"][1] = PyStr(<<"y", "e", "s">>)
    /\ df["InKACE"][1] = PyBool(TRUE)

(***************************************************************************)
(* Specification SpecColumns: get_existing_columns applied to a mapping    *)
(* from display headers to column names and a table. Column names that     *)
(* differ by letter case only are different names.                         *)
(***************************************************************************)
DisplayNames == {"Device Name", "Operating System", "Serial Number"}
ColumnNames == {"Name", "name", "OS"}
TargetNames == ColumnNames \cup {"SerialNumber"}

\* a dict of at most MaxMapping items: no display header occurs twice
Mappings ==
    {m \in SeqsUpTo(DisplayNames \X TargetNames, MaxMapping) :
        \A i, j \in 1..Len(m) : m[i][1] = m[j][1] => i = j}

\* the rows a table may hold: none, one, two
RowsOfCells == { <<>>, <<PyStr(<<"a">>)>>, <<PyStr(<<"b">>), PyNaN>> }

\* tables over every set of columns, each column holding the same cells
ColumnTables ==
    {[c \in cols |-> rows] : cols \in SUBSET ColumnNames, rows \in RowsOfCells}

InitColumns ==
    /\ pc = "input"
    /\ mapping_dict \in Mappings
    /\ df \in ColumnTables
    /\ existing_columns = <<>>
    /\ csv = <<>>
    /\ multi_instance = 0
    /\ ChartsUnused
    /\ AdjUnused
    /\ NormUnused
    /\ RefreshUnused

CallGetExistingColumns ==
    /\ pc = "input"
    /\ existing_columns' = get_existing_columns(mapping_dict, df)
    /\ pc' = "returned"
    /\ UNCHANGED <<mapping_dict, adjVars, normVars, tableVars, refreshVars>>

NextColumns == CallGetExistingColumns

SpecColumns == InitColumns /\ [][NextColumns]_vars

\* the positions of the mapping whose target is a column of the table
KeptEntries == {i \in 1..Len(mapping_dict) : mapping_dict[i][2] \in DOMAIN df}

\* the k-th kept position, in mapping order
KthKept(k) == CHOOSE i \in KeptEntries : Cardinality({j \in KeptEntries : j <= i}) = k

\* C16: the result is the targets of the entries whose target is a column
\* of the table, in mapping order, names compared letter by letter in their
\* case; it is empty for an empty mapping and when no target is a column;
\* it is the same for every table with the same column names.
C16_ExistingColumns ==
    pc = "returned" =>
        /\ Len(existing_columns) = Cardinality(KeptEntries)
        /\ \A k \in 1..Len(existing_columns) :
              existing_columns[k] = mapping_dict[KthKept(k)][2]
        /\ mapping_dict = <<>> => existing_columns = <<>>
        /\ KeptEntries = {} => existing_columns = <<>>
        /\ \A t \in ColumnTables :
              DOMAIN t = DOMAIN df => get_existing_columns(mapping_dict, t) = existing_columns

\* the table has Name and OS but not name: of the targets name and OS only
\* OS is returned
C16_Witness ==
    /\ pc = "returned"
    /\ mapping_dict = << <<"Device Name", "name">>, <<"Operating System", "OS">> >>
    /\ DOMAIN df = {"Name", "OS"}
    /\ Len(df["Name"]) = 2
    /\ existing_columns = <<"OS">>

(***************************************************************************)
(* Further claims about normalize_bool_column and about the charts.        *)
(***************************************************************************)
\* the series of bools the function returned, as a column of bool cells
AsBoolCells(bs) == [i \in 1..Len(bs) |-> PyBool(bs[i])]

\* C17: normalization is idempotent. A column that holds booleans only is
\* returned unchanged, and normalizing the result of a normalization gives
\* that result again, for every input column.
C17_NormalizeIdempotent ==
    pc = "returned" =>
        /\ (\A i \in 1..Len(series) : series[i].kind = "bool")
              => AsBoolCells(normalized) = series
        /\ normalize_bool_column(AsBoolCells(normalized)) = normalized

\* a column of booleans came back as it was, False included
C17_Witness ==
    /\ pc = "returned"
    /\ series = <<PyBool(TRUE), PyBool(FALSE)>>
    /\ normalized = <<TRUE, FALSE>>

\* the sum of the values of the buckets 0..k of the distribution
RECURSIVE SumBuckets(_)
SumBuckets(k) ==
    IF k < 0 THEN 0
    ELSE SumBuckets(k - 1) + (IF k \in DOMAIN adjusted_counts THEN adjusted_counts[k] ELSE 0)

\* every instance count of the table is a whole number
IntegerCounts ==
    \A c \in {"Entra_InstanceCount", "Sophos_InstanceCount"} :
        \A r \in 1..Len(df[c]) : NumVal(df[c][r]) % Den = 0

\* C18: the buckets partition the rows, so with whole instance counts the
\* values of all buckets add up to the total device count, and the
\* all-five count is the value of bucket 5, or 0 without a bucket 5.
C18_BucketsSumToTotal ==
    (pc = "rendered" /\ IntegerCounts) =>
        /\ \A r \in 1..Len(df["ContextsPresent"]) :
              \E k \in DOMAIN adjusted_counts : df["ContextsPresent"][r] = PyIntV(k)
        /\ SumBuckets(5) = total_devices
        /\ devices_all_5 = IF 5 \in DOMAIN adjusted_counts THEN adjusted_counts[5] ELSE 0

\* a device in all five contexts with duplicates in both sources and a
\* device in none with a Sophos duplicate: 4 + 2 = 6 devices
C18_Witness ==
    /\ pc = "rendered"
    /\ DOMAIN adjusted_counts = {0, 5}
    /\ adjusted_counts[5] = 4
    /\ adjusted_counts[0] = 2
    /\ devices_all_5 = 4
    /\ total_devices = 6

=============================================================================
